---- MODULE Spec2Model ----
(***************************************************************************)
(* Light_To_Sheet (src/main.py): piano note detection from video.          *)
(*                                                                         *)
(* Text is modelled as sequences of one-character strings, so that         *)
(* len(), slicing, "in" and concatenation are the sequence operations.     *)
(* Python's 0-based index i is the 1-based index i+1 of a TLA+ sequence.   *)
(***************************************************************************)
EXTENDS Integers, Sequences, FiniteSets, TLC

(***************************************************************************)
(* The state of a run of process_video (lines 260-409), and of a function  *)
(* applied on its own.                                                     *)
(***************************************************************************)
VARIABLES
    pc,                   \* where the run stands
    stream,               \* every frame cap.read() has delivered so far
    frame,                \* the frame of the current iteration
    frame_number,
    failed_frames,
    brightness_values,
    timestamp_str,
    f,                    \* output.txt: what is on disk, what is still buffered
    csv_f,                \* piano.csv, likewise
    sheet_music_columns,
    sheet_file,           \* sheet_music.txt
    console,              \* the messages about skipped and counted frames
    input,                \* argument and result of a function checked on its own
    output

vars == <<pc, stream, frame, frame_number, failed_frames, brightness_values,
          timestamp_str, f, csv_f, sheet_music_columns, sheet_file, console,
          input, output>>

(***************************************************************************)
(* Bounds of the model.                                                    *)
(***************************************************************************)
\* Longest stream cap.read() delivers before it reports the end.
MaxFrames == 3
\* Longest note string handed to format_note_3char on its own.
MaxNoteLen == 4

(***************************************************************************)
(* Module-level tables (main.py lines 58-76).                              *)
(***************************************************************************)
RECURSIVE Repeat(_, _)
\* Python's list * n.
Repeat(s, n) == IF n = 0 THEN << >> ELSE s \o Repeat(s, n - 1)

helper == <<28, 15, 21, 15, 28, 28, 15, 20, 15, 21, 15, 28>>

vertical_slices_wide_last == <<29, 15, 28>> \o Repeat(helper, 7) \o <<34>>

vertical_slices == <<29, 15, 28>> \o Repeat(helper, 7) \o <<33>>

tags == << <<"C">>, <<"C", "#">>, <<"D">>, <<"D", "#">>, <<"E">>, <<"F">>,
           <<"F", "#">>, <<"G">>, <<"G", "#">>, <<"A">>, <<"A", "#">>, <<"B">> >>

slices_tags == << <<"A">>, <<"A", "#">>, <<"B">> >> \o Repeat(tags, 7) \o << <<"C">> >>

\* The analysis width, the literal 1848 of analyze_frame_brightness.
FrameWidth == 1848

DigitChars == <<"0", "1", "2", "3", "4", "5", "6", "7", "8", "9">>

RECURSIVE str_int(_)
\* str(n) / f"{n}" of a non-negative int.
str_int(n) == IF n < 10 THEN <<DigitChars[n + 1]>>
              ELSE str_int(n \div 10) \o <<DigitChars[(n % 10) + 1]>>

DigitVal(c) == (CHOOSE d \in 1..10 : DigitChars[d] = c) - 1

RECURSIVE int_str(_)
\* int(s) of a non-empty string of decimal digits.
int_str(s) == IF Len(s) = 1 THEN DigitVal(s[1])
              ELSE int_str(SubSeq(s, 1, Len(s) - 1)) * 10 + DigitVal(s[Len(s)])

RECURSIVE notes_loop(_, _, _)
\* The loop of lines 66-76 over the notes a..b (0-based), entered with the
\* given octave: the names it appends and the octave it leaves.  A range of
\* several notes is its first half followed by its second half.
notes_loop(a, b, octave) ==
    IF a = b
      THEN LET note == slices_tags[a + 1]
               oct  == IF a = 0 THEN 0
                       ELSE IF note = <<"C">> /\ a = 3 THEN 1
                       ELSE IF note = <<"C">> /\ a > 3 THEN octave + 1
                       ELSE octave
           IN  [notes |-> <<note \o str_int(oct)>>, octave |-> oct]
      ELSE LET mid   == (a + b) \div 2
               first == notes_loop(a, mid, octave)
               rest  == notes_loop(mid + 1, b, first.octave)
           IN  [notes |-> first.notes \o rest.notes, octave |-> rest.octave]

piano_notes == notes_loop(0, Len(slices_tags) - 1, 0).notes

(***************************************************************************)
(* get_note_pitch_value (lines 86-103).                                    *)
(***************************************************************************)
note_values(note) ==
    CASE note = <<"C">> -> 0       [] note = <<"C", "#">> -> 1
      [] note = <<"D">> -> 2       [] note = <<"D", "#">> -> 3
      [] note = <<"E">> -> 4       [] note = <<"F">> -> 5
      [] note = <<"F", "#">> -> 6  [] note = <<"G">> -> 7
      [] note = <<"G", "#">> -> 8  [] note = <<"A">> -> 9
      [] note = <<"A", "#">> -> 10 [] note = <<"B">> -> 11

get_note_pitch_value_ignoring_octave(note_str) ==
    IF \E k \in 1..Len(note_str) : note_str[k] = "#"
      THEN note_values(SubSeq(note_str, 1, 2))
      ELSE note_values(SubSeq(note_str, 1, 1))

get_note_pitch_value(note_str) ==
    IF \E k \in 1..Len(note_str) : note_str[k] = "#"
      THEN int_str(SubSeq(note_str, 3, Len(note_str))) * 12
             + note_values(SubSeq(note_str, 1, 2))
      ELSE int_str(SubSeq(note_str, 2, Len(note_str))) * 12
             + note_values(SubSeq(note_str, 1, 1))

(***************************************************************************)
(* format_note_3char (lines 105-112).                                      *)
(***************************************************************************)
format_note_3char_truncating(note_str) ==
    IF Len(note_str) = 2 THEN note_str \o <<" ">>
    ELSE IF Len(note_str) = 3 THEN note_str
    ELSE IF Len(note_str) > 3 THEN SubSeq(note_str, 1, 3)
    ELSE note_str \o <<" ", " ">>

format_note_3char(note_str) ==
    IF Len(note_str) = 2 THEN note_str \o <<" ">>
    ELSE IF Len(note_str) = 3 THEN note_str
    ELSE <<"-", "-", "-">>

(***************************************************************************)
(* format_timestamp (lines 197-203).  A duration in seconds is the exact   *)
(* fraction num/den; timedelta keeps whole seconds and microseconds, the   *)
(* fraction rounded half to even.                                          *)
(***************************************************************************)
timedelta(seconds) ==
    LET whole == seconds.num \div seconds.den
        rest  == (seconds.num % seconds.den) * 1000000
        q     == rest \div seconds.den
        r     == rest % seconds.den
        us    == IF 2 * r > seconds.den \/ (2 * r = seconds.den /\ q % 2 = 1)
                   THEN q + 1 ELSE q
    IN  IF us = 1000000 THEN [secs |-> whole + 1, micros |-> 0]
                        ELSE [secs |-> whole, micros |-> us]

RECURSIVE zero_pad(_, _)
\* The 0-flag of a format spec: pad on the left to at least width.
zero_pad(s, width) == IF Len(s) >= width THEN s ELSE zero_pad(<<"0">> \o s, width)

format_timestamp_no_minutes(seconds) ==
    LET td == timedelta(seconds)
    IN  zero_pad(str_int(td.secs \div 3600), 2) \o <<":">>
          \o zero_pad(str_int(0), 2) \o <<":">>
          \o zero_pad(str_int(td.secs % 60), 2) \o <<".">>
          \o zero_pad(str_int(td.micros), 6)

format_timestamp(seconds) ==
    LET td      == timedelta(seconds)
        hours   == td.secs \div 3600
        minutes == (td.secs % 3600) \div 60
    IN  zero_pad(str_int(hours), 2) \o <<":">>
          \o zero_pad(str_int(minutes), 2) \o <<":">>
          \o zero_pad(str_int(td.secs % 60), 2) \o <<".">>
          \o zero_pad(str_int(td.micros), 6)

(***************************************************************************)
(* Frames.  cap.read() hands back None, an empty array, or a 1848x1080    *)
(* BGR image (preprocess_video scales every video to that size).  Only    *)
(* row y = 0 of an image is ever read; an image is described by the keys  *)
(* whose light is on and the colours painted over lit and unlit keys.     *)
(***************************************************************************)
NoFrame == [kind |-> "none"]

EmptyFrame == [kind |-> "empty"]

Image(lit, on, off) == [kind |-> "image", lit |-> lit, on |-> on, off |-> off]

Paints == {"black", "white", "grey178", "grey179", "mix", "red", "yellow"}

BGR(b, g, r) == [b |-> b, g |-> g, r |-> r]

\* The colour a paint puts at column x.
PaintAt(paint, x) ==
    CASE paint = "black"   -> BGR(0, 0, 0)
      [] paint = "white"   -> BGR(255, 255, 255)
      [] paint = "grey178" -> BGR(178, 178, 178)
      [] paint = "grey179" -> BGR(179, 179, 179)
      [] paint = "mix"     -> IF x % 2 = 0 THEN BGR(178, 178, 178) ELSE BGR(179, 179, 179)
      [] paint = "red"     -> BGR(0, 0, 255)
      [] paint = "yellow"  -> BGR(0, 255, 255)

RECURSIVE SumWidths(_, _)
\* Total width of the keys a..b (1-based).
SumWidths(a, b) ==
    IF a > b THEN 0
    ELSE IF a = b THEN vertical_slices[a]
    ELSE SumWidths(a, (a + b) \div 2) + SumWidths((a + b) \div 2 + 1, b)

\* KeyEdges[k + 1] is the left edge of key k (0-based) on the keyboard and
\* KeyEdges[k + 2] its right edge.
KeyEdges == <<0>> \o [k \in 1..Len(vertical_slices) |-> SumWidths(1, k)]

\* The pixel of row 0 at column x.
Pixel(image, x) ==
    IF \E k \in image.lit : KeyEdges[k + 1] <= x /\ x < KeyEdges[k + 2]
      THEN PaintAt(image.on, x)
      ELSE PaintAt(image.off, x)

\* frame is None or frame.size == 0 (line 299).
is_corrupt(image) == image.kind = "none" \/ image.kind = "empty"

(***************************************************************************)
(* analyze_frame_brightness (lines 205-258), visualize left out: it draws  *)
(* on a copy and changes none of the values.                               *)
(***************************************************************************)
\* cv2.cvtColor(frame, COLOR_BGR2GRAY) on one 8-bit pixel:
\* round(0.114 B + 0.587 G + 0.299 R) in 14-bit fixed point.
cvtColor(px) == (px.b * 1868 + px.g * 9617 + px.r * 4899 + 8192) \div 16384

RECURSIVE gray_sum(_, _, _)
\* Sum of gray[0:1, a:b].
gray_sum(image, a, b) ==
    IF a >= b THEN 0 ELSE cvtColor(Pixel(image, a)) + gray_sum(image, a + 1, b)

\* Lines 229-231 on a region of n pixels summing to total: the mean as a
\* percentage of 255 against 70.  An empty region has mean nan, and
\* nan > 70 is False.
brightness_binary_inclusive(total, n) ==
    IF n = 0 THEN 0 ELSE IF total * 100 >= 70 * 255 * n THEN 1 ELSE 0

brightness_binary(total, n) ==
    IF n = 0 THEN 0 ELSE IF total * 100 > 70 * 255 * n THEN 1 ELSE 0

RECURSIVE slice_loop(_, _, _, _)
\* The loop of lines 218-254 over the slices a..b (1-based), entered with
\* x_position: the values it appends to brightness_values, every slice's
\* [x_start, x_end), and the x_position it leaves.  A range of several
\* slices is its first half followed by its second half.
slice_loop(image, a, b, x_position) ==
    IF a = b
      THEN LET x_start == x_position
               x_sum   == x_position + vertical_slices[a]
               x_end   == IF x_sum > FrameWidth THEN FrameWidth ELSE x_sum
           IN  [values |->
                    <<brightness_binary(gray_sum(image, x_start, x_end), x_end - x_start)>>,
                regions |-> <<[x_start |-> x_start, x_end |-> x_end]>>,
                x_position |-> x_end]
      ELSE LET mid   == (a + b) \div 2
               first == slice_loop(image, a, mid, x_position)
               rest  == slice_loop(image, mid + 1, b, first.x_position)
           IN  [values |-> first.values \o rest.values,
                regions |-> first.regions \o rest.regions,
                x_position |-> rest.x_position]

\* The whole loop on one frame.
slices_of(image) == slice_loop(image, 1, Len(vertical_slices), 0)

analyze_frame_brightness(image) == slices_of(image).values

(***************************************************************************)
(* process_video: the sheet column of one frame (lines 348-363).           *)
(***************************************************************************)
\* The literal '---' where it stands for silence (line 361), for a repeated
\* note (line 388) and for a column with no entry in the row (line 393).
SilenceToken == <<"-", "-", "-">>

RepeatTokenDistinct == <<"=", "=", "=">>

RepeatToken == <<"-", "-", "-">>

FillerToken == <<"-", "-", "-">>

\* Lines 349-352: the names of the slices whose value is 1, in slice order.
active_notes(values) ==
    LET idx == SelectSeq([i \in 1..Len(values) |-> i], LAMBDA i : values[i] = 1)
    IN  [k \in 1..Len(idx) |-> piano_notes[idx[k]]]

RECURSIVE insert_reverse(_, _)
\* One step of the stable descending sort: note goes behind every element
\* whose key is at least its own.
insert_reverse(sorted, note) ==
    IF sorted = << >> THEN <<note>>
    ELSE IF get_note_pitch_value(Head(sorted)) >= get_note_pitch_value(note)
           THEN <<Head(sorted)>> \o insert_reverse(Tail(sorted), note)
           ELSE <<note>> \o sorted

RECURSIVE sort_reverse(_)
\* list.sort(key=get_note_pitch_value, reverse=True) (line 355).
sort_reverse(notes) ==
    IF notes = << >> THEN << >>
    ELSE insert_reverse(sort_reverse(SubSeq(notes, 1, Len(notes) - 1)), notes[Len(notes)])

sheet_column(values) ==
    LET sorted == sort_reverse(active_notes(values))
    IN  IF sorted # << >>
          THEN [k \in 1..Len(sorted) |-> format_note_3char(sorted[k])]
          ELSE <<SilenceToken>>

(***************************************************************************)
(* process_video: the sheet rows (lines 371-398).  None, the first value   *)
(* of prev_note, is the empty string here: no label is empty.              *)
(***************************************************************************)
None == << >>

RECURSIVE MaxLen(_)
MaxLen(columns) ==
    IF Len(columns) = 1 THEN Len(columns[1])
    ELSE LET m == MaxLen(Tail(columns))
         IN  IF Len(columns[1]) >= m THEN Len(columns[1]) ELSE m

\* Line 375.
max_notes(columns) == IF columns # << >> THEN MaxLen(columns) ELSE 1

\* Lines 383-394 without line 394: the filler leaves prev_note alone.
row_step_keeping_prev(col, row_idx, prev_note) ==
    IF row_idx < Len(col)
      THEN LET current_note == col[row_idx + 1]
           IN  IF current_note # <<"-", "-", "-">> /\ current_note = prev_note
                 THEN [token |-> RepeatToken, prev_note |-> prev_note]
                 ELSE [token |-> current_note, prev_note |-> current_note]
      ELSE [token |-> FillerToken, prev_note |-> prev_note]

\* Lines 383-394: the token of one column in row row_idx and the new prev_note.
row_step(col, row_idx, prev_note) ==
    IF row_idx < Len(col)
      THEN LET current_note == col[row_idx + 1]
           IN  IF current_note # <<"-", "-", "-">> /\ current_note = prev_note
                 THEN [token |-> RepeatToken, prev_note |-> prev_note]
                 ELSE [token |-> current_note, prev_note |-> current_note]
      ELSE [token |-> FillerToken, prev_note |-> <<"-", "-", "-">>]

RECURSIVE row_parts(_, _, _, _)
\* Lines 382-394 from column col_idx (0-based) on.
row_parts(columns, row_idx, col_idx, prev_note) ==
    IF col_idx >= Len(columns) THEN << >>
    ELSE LET step == row_step(columns[col_idx + 1], row_idx, prev_note)
         IN  <<step.token>> \o row_parts(columns, row_idx, col_idx + 1, step.prev_note)

\* The lines written to sheet_music.txt, each the list of tokens that
\* ' '.join puts on it.
sheet_lines(columns) ==
    [r \in 1..max_notes(columns) |-> row_parts(columns, r - 1, 0, None)]

(***************************************************************************)
(* process_video (lines 260-409) as a state machine.  save_previews only   *)
(* adds drawing and image files; both branches of line 306 compute the     *)
(* same brightness_values.                                                 *)
(***************************************************************************)
fps == 24

\* frame_number * frame_duration with frame_duration = 1.0 / fps (lines 278, 331).
timestamp_of(n) == [num |-> n, den |-> fps]

\* Line 291, the header: "timestamp" and the 88 note names.
header == [cells |-> << <<"t", "i", "m", "e", "s", "t", "a", "m", "p">> >> \o piano_notes,
           eol |-> TRUE]

\* Line 334 and the '\n' of line 340.
output_line(values, ts) == [values |-> values, ts |-> ts, eol |-> TRUE]

\* Line 344.
csv_line(values, ts) ==
    [cells |-> <<ts>> \o [i \in 1..Len(values) |-> str_int(values[i])], eol |-> TRUE]

\* file.write(text): the text joins the buffer.
write(file, text) == [file EXCEPT !.buf = Append(@, text)]

flush_nothing(file) == file

\* file.flush(), and the close at the end of the with block: the buffer
\* reaches the disk.
flush(file) == [disk |-> file.disk \o file.buf, buf |-> << >>]

\* The process is killed: what was buffered is lost.
drop(file) == [file EXCEPT !.buf = << >>]

after_skip_same_index(counters) ==
    [failed_frames |-> counters.failed_frames + 1, frame_number |-> counters.frame_number]

\* Lines 301-302.
after_skip(counters) ==
    [failed_frames |-> counters.failed_frames + 1,
     frame_number  |-> counters.frame_number + 1]

MainKeys == {34, 39}

\* What cap.read() may deliver in the run: corrupt frames, and images in
\* which any of the keys G3 and C4 is lit white on black.
MainFrames == {NoFrame, EmptyFrame} \cup {Image(lit, "white", "black") : lit \in SUBSET MainKeys}

Nothing == [kind |-> "nothing"]

InitRun ==
    /\ stream = << >>
    /\ frame = NoFrame
    /\ frame_number = 0
    /\ failed_frames = 0
    /\ brightness_values = << >>
    /\ timestamp_str = << >>
    /\ f = [disk |-> << >>, buf |-> << >>]
    /\ csv_f = [disk |-> << >>, buf |-> <<header>>]
    /\ sheet_music_columns = << >>
    /\ sheet_file = [exists |-> FALSE, lines |-> << >>]
    /\ console = << >>

Init ==
    /\ pc = "read"
    /\ InitRun
    /\ input = Nothing
    /\ output = Nothing

\* Lines 294-303: one cap.read().
ReadFrame ==
    /\ pc = "read"
    /\ \/ \* ret is False: break, and the with block closes both files
          /\ pc' = "sheet"
          /\ f' = flush(f)
          /\ csv_f' = flush(csv_f)
          /\ UNCHANGED <<stream, frame, frame_number, failed_frames, console>>
       \/ \* a corrupt frame: skipped
          /\ Len(stream) < MaxFrames
          /\ \E fr \in MainFrames :
                /\ is_corrupt(fr)
                /\ stream' = Append(stream, fr)
                /\ frame' = fr
                /\ console' = Append(console, [msg |-> "skipping", n |-> frame_number])
                /\ LET c == after_skip([failed_frames |-> failed_frames,
                                        frame_number |-> frame_number])
                   IN  /\ failed_frames' = c.failed_frames
                       /\ frame_number' = c.frame_number
          /\ UNCHANGED <<pc, f, csv_f>>
       \/ \* a valid frame
          /\ Len(stream) < MaxFrames
          /\ \E fr \in MainFrames :
                /\ ~is_corrupt(fr)
                /\ stream' = Append(stream, fr)
                /\ frame' = fr
          /\ pc' = "analyze"
          /\ UNCHANGED <<frame_number, failed_frames, f, csv_f, console>>
    /\ UNCHANGED <<brightness_values, timestamp_str, sheet_music_columns, sheet_file,
                   input, output>>

\* Lines 306-332.
Analyze ==
    /\ pc = "analyze"
    /\ brightness_values' = analyze_frame_brightness(frame)
    /\ timestamp_str' = format_timestamp(timestamp_of(frame_number))
    /\ pc' = "write_raw"
    /\ UNCHANGED <<stream, frame, frame_number, failed_frames, f, csv_f,
                   sheet_music_columns, sheet_file, console, input, output>>

\* Lines 334-340.
WriteRaw ==
    /\ pc = "write_raw"
    /\ f' = write(f, output_line(brightness_values, timestamp_str))
    /\ pc' = "flush_raw"
    /\ UNCHANGED <<stream, frame, frame_number, failed_frames, brightness_values,
                   timestamp_str, csv_f, sheet_music_columns, sheet_file, console,
                   input, output>>

\* Line 341.
FlushRaw ==
    /\ pc = "flush_raw"
    /\ f' = flush(f)
    /\ pc' = "write_csv"
    /\ UNCHANGED <<stream, frame, frame_number, failed_frames, brightness_values,
                   timestamp_str, csv_f, sheet_music_columns, sheet_file, console,
                   input, output>>

\* Lines 344-345.
WriteCsv ==
    /\ pc = "write_csv"
    /\ csv_f' = write(csv_f, csv_line(brightness_values, timestamp_str))
    /\ pc' = "flush_csv"
    /\ UNCHANGED <<stream, frame, frame_number, failed_frames, brightness_values,
                   timestamp_str, f, sheet_music_columns, sheet_file, console,
                   input, output>>

\* Line 346.
FlushCsv ==
    /\ pc = "flush_csv"
    /\ csv_f' = flush(csv_f)
    /\ pc' = "column"
    /\ UNCHANGED <<stream, frame, frame_number, failed_frames, brightness_values,
                   timestamp_str, f, sheet_music_columns, sheet_file, console,
                   input, output>>

\* Lines 348-367: the column is buffered, the run sleeps, the counter moves on.
BufferColumn ==
    /\ pc = "column"
    /\ sheet_music_columns' = Append(sheet_music_columns, sheet_column(brightness_values))
    /\ frame_number' = frame_number + 1
    /\ pc' = "read"
    /\ UNCHANGED <<stream, frame, failed_frames, brightness_values, timestamp_str,
                   f, csv_f, sheet_file, console, input, output>>

\* Lines 371-398.
WriteSheet ==
    /\ pc = "sheet"
    /\ sheet_file' = [exists |-> TRUE, lines |-> sheet_lines(sheet_music_columns)]
    /\ pc' = "report"
    /\ UNCHANGED <<stream, frame, frame_number, failed_frames, brightness_values,
                   timestamp_str, f, csv_f, sheet_music_columns, console, input, output>>

\* Lines 400-402.
Report ==
    /\ pc = "report"
    /\ console' = console \o <<[msg |-> "total", n |-> frame_number]>>
                    \o (IF failed_frames > 0
                          THEN <<[msg |-> "skipped", n |-> failed_frames]>>
                          ELSE << >>)
    /\ pc' = "done"
    /\ UNCHANGED <<stream, frame, frame_number, failed_frames, brightness_values,
                   timestamp_str, f, csv_f, sheet_music_columns, sheet_file, input, output>>

InLoop == pc \in {"read", "analyze", "write_raw", "flush_raw", "write_csv", "flush_csv",
                  "column"}

\* The run is interrupted inside the loop of lines 293-367.  An exception
\* (Ctrl-C) leaves through the with block of line 289, which closes both
\* files; a kill ends the process with whatever its buffers held.
Interrupt ==
    /\ InLoop
    /\ \/ /\ f' = flush(f)
          /\ csv_f' = flush(csv_f)
       \/ /\ f' = drop(f)
          /\ csv_f' = drop(csv_f)
    /\ pc' = "interrupted"
    /\ UNCHANGED <<stream, frame, frame_number, failed_frames, brightness_values,
                   timestamp_str, sheet_music_columns, sheet_file, console, input, output>>

Next ==
    \/ ReadFrame
    \/ Analyze
    \/ WriteRaw
    \/ FlushRaw
    \/ WriteCsv
    \/ FlushCsv
    \/ BufferColumn
    \/ WriteSheet
    \/ Report
    \/ Interrupt

Spec == Init /\ [][Next]_vars

(***************************************************************************)
(* The functions checked on their own: the argument is drawn in the        *)
(* initial state and one action applies the function.                      *)
(***************************************************************************)
RECURSIVE StringsUpTo(_, _)
\* Every string over alphabet of at most n characters.
StringsUpTo(alphabet, n) ==
    IF n = 0 THEN {<< >>}
    ELSE LET shorter == StringsUpTo(alphabet, n - 1)
         IN  shorter \cup {Append(s, c) : s \in shorter, c \in alphabet}

NoteStrings == StringsUpTo({"C", "#", "4", "-"}, MaxNoteLen)

InitFormat ==
    /\ pc = "call_format"
    /\ InitRun
    /\ input \in NoteStrings
    /\ output = Nothing

CallFormat ==
    /\ pc = "call_format"
    /\ output' = [kind |-> "returned", value |-> format_note_3char(input)]
    /\ pc' = "returned"
    /\ UNCHANGED <<stream, frame, frame_number, failed_frames, brightness_values,
                   timestamp_str, f, csv_f, sheet_music_columns, sheet_file, console,
                   input>>

SpecFormat == InitFormat /\ [][CallFormat]_vars

\* Keys at both ends of the keyboard and in its middle: A0 (odd width),
\* G3 and C4 (even widths), C8.
AnalyzeKeys == {0, 34, 39, 87}

AnalyzeFrames == {Image(lit, on, off) : lit \in SUBSET AnalyzeKeys, on \in Paints, off \in Paints}

InitAnalyze ==
    /\ pc = "call_analyze"
    /\ InitRun
    /\ input \in AnalyzeFrames
    /\ output = Nothing

\* The regions the loop cut are kept beside the values it returned.
CallAnalyze ==
    /\ pc = "call_analyze"
    /\ LET cut == slices_of(input)
       IN  output' = [kind |-> "returned", value |-> cut.values, regions |-> cut.regions]
    /\ pc' = "returned"
    /\ UNCHANGED <<stream, frame, frame_number, failed_frames, brightness_values,
                   timestamp_str, f, csv_f, sheet_music_columns, sheet_file, console,
                   input>>

SpecAnalyze == InitAnalyze /\ [][CallAnalyze]_vars

\* Slices whose value may be 1 in the vectors a column is built from:
\* A0, A#0, B0, C1, G3, C4, A#7, C8.
ColumnKeys == {0, 1, 2, 3, 34, 39, 85, 87}

ActivationVector(active) == [i \in 1..Len(vertical_slices) |-> IF (i - 1) \in active THEN 1 ELSE 0]

InitColumn ==
    /\ pc = "call_column"
    /\ InitRun
    /\ input \in {ActivationVector(active) : active \in SUBSET ColumnKeys}
    /\ output = Nothing

CallColumn ==
    /\ pc = "call_column"
    /\ output' = [kind |-> "returned", value |-> sheet_column(input)]
    /\ pc' = "returned"
    /\ UNCHANGED <<stream, frame, frame_number, failed_frames, brightness_values,
                   timestamp_str, f, csv_f, sheet_music_columns, sheet_file, console,
                   input>>

SpecColumn == InitColumn /\ [][CallColumn]_vars

(***************************************************************************)
(* What the checked statements speak about.                                *)
(***************************************************************************)
\* The three dashes of the sheet.
Dashes == <<"-", "-", "-">>

\* The stream so far: its length, its corrupt frames, and the 0-based frame
\* indices of its valid frames in order.
StreamLength == Len(stream)

CorruptCount == Cardinality({j \in 1..Len(stream) : is_corrupt(stream[j])})

ValidIndices ==
    LET pos == SelectSeq([j \in 1..Len(stream) |-> j], LAMBDA j : ~is_corrupt(stream[j]))
    IN  [k \in 1..Len(pos) |-> pos[k] - 1]

SheetWritten == pc \in {"report", "done"}

\* The entry of column j at row r (both 1-based) of the buffered columns;
\* None when the column is too short.
Entry(r, j) ==
    IF r <= Len(sheet_music_columns[j]) THEN sheet_music_columns[j][r] ELSE None

IsNote(e) == e # None /\ e # Dashes

\* The note carried into column j of row r: the entry of the column before
\* when that is a note, and the rest marker after a rest or a gap.
Carried(r, j) ==
    IF j = 1 THEN None
    ELSE IF IsNote(Entry(r, j - 1)) THEN Entry(r, j - 1) ELSE Dashes

\* Positions of the sheet where a note repeats the carried note, and
\* positions with no active note (a rest column or a filler).
RepeatPositions ==
    {p \in (1..Len(sheet_file.lines)) \X (1..Len(sheet_music_columns)) :
        IsNote(Entry(p[1], p[2])) /\ Entry(p[1], p[2]) = Carried(p[1], p[2])}

RestPositions ==
    {p \in (1..Len(sheet_file.lines)) \X (1..Len(sheet_music_columns)) :
        ~IsNote(Entry(p[1], p[2]))}

\* The label of slice i (0-based) as a full note.
Label(i) == format_note_3char(piano_notes[i + 1])

\* C1: every token of every sheet row is the repeat marker where the entry
\* is a note equal to the carried note of its row, the entry itself where
\* it is anything else, and three dashes where the column has no entry; a
\* note after a rest or a gap is written in full; and frames X, X, nothing
\* give the single row [X, ---, ---].
C1_SheetComposition ==
    SheetWritten =>
      /\ Len(sheet_file.lines)
           = (IF sheet_music_columns = << >> THEN 1
              ELSE CHOOSE m \in 1..Len(vertical_slices) :
                     /\ \A j \in 1..Len(sheet_music_columns) : Len(sheet_music_columns[j]) <= m
                     /\ \E j \in 1..Len(sheet_music_columns) : Len(sheet_music_columns[j]) = m)
      /\ \A r \in 1..Len(sheet_file.lines) :
           /\ Len(sheet_file.lines[r]) = Len(sheet_music_columns)
           /\ \A j \in 1..Len(sheet_music_columns) :
                LET token == sheet_file.lines[r][j]
                    e     == Entry(r, j)
                IN  /\ e = None => token = Dashes
                    /\ (IsNote(e) /\ e = Carried(r, j)) => token = Dashes
                    /\ (e # None /\ ~(IsNote(e) /\ e = Carried(r, j))) => token = e
                    /\ (IsNote(e) /\ j > 1 /\ ~IsNote(Entry(r, j - 1))) => token = e
      /\ \A x \in MainKeys :
           stream = <<Image({x}, "white", "black"), Image({x}, "white", "black"),
                      Image({}, "white", "black")>>
             => sheet_file.lines = << <<Label(x), Dashes, Dashes>> >>

\* A sheet in which a note was collapsed as a repeat and the same note came
\* back in full after a gap in its row.
C1_Witness ==
    /\ pc = "done"
    /\ \E p \in RepeatPositions : sheet_file.lines[p[1]][p[2]] = Dashes
    /\ \E r \in 1..Len(sheet_file.lines) : \E j \in 3..Len(sheet_music_columns) :
          /\ IsNote(Entry(r, j))
          /\ Entry(r, j - 1) = None
          /\ Entry(r, j - 2) = Entry(r, j)
          /\ sheet_file.lines[r][j] = Entry(r, j)

\* C2 as the specification has it: a token written for a repeated note
\* differs from every token written for a position with no active note.
C2_MarkersDistinguishable ==
    SheetWritten =>
      \A p \in RepeatPositions : \A q \in RestPositions :
         sheet_file.lines[p[1]][p[2]] # sheet_file.lines[q[1]][q[2]]

\* C2 as the code has it: the token written for a repeated note and the
\* token written for a position with no active note are the same three
\* dashes.
C2_MarkersSame ==
    SheetWritten =>
      /\ \A p \in RepeatPositions : sheet_file.lines[p[1]][p[2]] = Dashes
      /\ \A q \in RestPositions : sheet_file.lines[q[1]][q[2]] = Dashes

C2_Witness ==
    /\ pc = "done"
    /\ RepeatPositions # {}
    /\ \E q \in RestPositions : Entry(q[1], q[2]) = Dashes
    /\ \E q \in RestPositions : Entry(q[1], q[2]) = None

\* The slices of an activation vector whose value is 1 (0-based).
ActiveSlices(values) == {i \in 0..(Len(values) - 1) : values[i + 1] = 1}

\* octave * 12 + pitch-class index (C = 0 ... B = 11) of a 3-character label.
PitchOfLabel(label) ==
    LET name  == IF label[3] = " " THEN SubSeq(label, 1, 2) ELSE label
        class == SubSeq(name, 1, Len(name) - 1)
    IN  DigitVal(name[Len(name)]) * 12 + (CHOOSE k \in 1..12 : tags[k] = class) - 1

\* C3: the column of an activation vector holds exactly the labels of its
\* active slices, each once, in strictly descending pitch value, so C4 (48)
\* stands before G3 (43); the all-zero vector gives the single rest marker.
C3_ColumnOrder ==
    pc = "returned" =>
      LET column == output.value
          active == ActiveSlices(input)
      IN  /\ Len(input) = 88
          /\ active = {} => column = <<Dashes>>
          /\ active # {} =>
               /\ Len(column) = Cardinality(active)
               /\ {column[k] : k \in 1..Len(column)} = {Label(i) : i \in active}
               /\ \A k \in 1..(Len(column) - 1) :
                    PitchOfLabel(column[k]) > PitchOfLabel(column[k + 1])
          /\ active = {34, 39} =>
               /\ column = << <<"C", "4", " ">>, <<"G", "3", " ">> >>
               /\ PitchOfLabel(column[1]) = 48
               /\ PitchOfLabel(column[2]) = 43

\* A column built from C4, G3 and at least one more key, a sharp among them.
C3_Witness ==
    /\ pc = "returned"
    /\ {1, 34, 39} \subseteq ActiveSlices(input)
    /\ Len(output.value) >= 3
    /\ \E k \in 1..(Len(output.value) - 1) :
          output.value[k] = <<"C", "4", " ">> /\ output.value[k + 1] = <<"G", "3", " ">>

\* C4: at the end of a run over N frames of which k are corrupt, the raw
\* log holds N-k lines, the tabular log the header and N-k rows, the
\* failure count is k and is the count the warning reports (no warning
\* when it is 0), and the frame counter the timestamps use stands at N.
C4_SkippedFrameAccounting ==
    /\ pc \in {"sheet", "report", "done"} =>
         /\ Len(f.disk) = StreamLength - CorruptCount
         /\ Len(csv_f.disk) = 1 + StreamLength - CorruptCount
         /\ csv_f.disk[1] = header
         /\ f.buf = << >> /\ csv_f.buf = << >>
         /\ failed_frames = CorruptCount
         /\ frame_number = StreamLength
    /\ pc = "done" =>
         LET reports == SelectSeq(console, LAMBDA m : m.msg # "skipping")
         IN  reports = <<[msg |-> "total", n |-> StreamLength]>>
                         \o (IF CorruptCount > 0
                               THEN <<[msg |-> "skipped", n |-> CorruptCount]>>
                               ELSE << >>)

\* A finished run whose second frame was corrupt, between two valid frames.
C4_Witness ==
    /\ pc = "done"
    /\ Len(stream) = 3
    /\ ~is_corrupt(stream[1]) /\ is_corrupt(stream[2]) /\ ~is_corrupt(stream[3])
    /\ Len(f.disk) = 2
    /\ failed_frames = 1
    /\ frame_number = 3

\* C5: at the end of the stream there is one buffered column per frame of
\* the stream, and the j-th token of every sheet row belongs to the frame
\* with index j.
C5_OneColumnPerFrame ==
    pc = "done" =>
      /\ Len(sheet_music_columns) = StreamLength
      /\ \A r \in 1..Len(sheet_file.lines) : Len(sheet_file.lines[r]) = StreamLength
      /\ \A j \in 1..Len(sheet_music_columns) :
           j <= StreamLength /\ ~is_corrupt(stream[j])
             /\ sheet_music_columns[j] = sheet_column(analyze_frame_brightness(stream[j]))

\* The whole seconds and the microseconds a written timestamp
\* "H..H:MM:SS.ffffff" reads as.
ReadTimestamp(ts) ==
    LET n == Len(ts)
    IN  [secs   |-> int_str(SubSeq(ts, 1, n - 13)) * 3600
                      + int_str(SubSeq(ts, n - 11, n - 10)) * 60
                      + int_str(SubSeq(ts, n - 8, n - 7)),
         micros |-> int_str(SubSeq(ts, n - 5, n))]

\* ts reads as i / fps seconds, to the microsecond.
IsTimeOfFrame(ts, i) ==
    LET t    == ReadTimestamp(ts)
        diff == fps * t.micros - (i % fps) * 1000000
    IN  /\ Len(ts) >= 15
        /\ ts[Len(ts) - 6] = "." /\ ts[Len(ts) - 9] = ":" /\ ts[Len(ts) - 12] = ":"
        /\ t.secs = i \div fps
        /\ -12 <= diff /\ diff <= 12

Earlier(ts1, ts2) ==
    LET a == ReadTimestamp(ts1)
        b == ReadTimestamp(ts2)
    IN  a.secs < b.secs \/ (a.secs = b.secs /\ a.micros < b.micros)

\* Frame indices around the first second, minute, hour, day and hundredth hour.
SampleFrameIndices == {0, 1, 2, 23, 24, 25, 1439, 1440, 1441, 86399, 86400, 86401,
                       2073599, 2073600, 8640000, 8640005}

\* Every timestamp written so far, in the order written, flushed or not.
RawTimestamps == [k \in 1..Len(f.disk \o f.buf) |-> (f.disk \o f.buf)[k].ts]

CsvTimestamps ==
    LET rows == SelectSeq(csv_f.disk \o csv_f.buf, LAMBDA row : row # header)
    IN  [k \in 1..Len(rows) |-> rows[k].cells[1]]

\* C6: the record of the frame with index i carries the timestamp i/24, in
\* both logs; the timestamps of successive records strictly increase; a
\* stream of N frames none of which is skipped gives 0, 1/24, ..., (N-1)/24
\* in order; and the timestamp of any frame index reads as index/24.
C6_Timestamps ==
    /\ \A log \in {RawTimestamps, CsvTimestamps} :
         /\ Len(log) <= Len(ValidIndices)
         /\ \A k \in 1..Len(log) : IsTimeOfFrame(log[k], ValidIndices[k])
         /\ \A k \in 1..(Len(log) - 1) : Earlier(log[k], log[k + 1])
         /\ CorruptCount = 0 => \A k \in 1..Len(log) : IsTimeOfFrame(log[k], k - 1)
         /\ (CorruptCount = 0 /\ pc = "done") => Len(log) = StreamLength
    /\ \A i \in SampleFrameIndices : IsTimeOfFrame(format_timestamp(timestamp_of(i)), i)
    /\ \A i \in SampleFrameIndices :
         Earlier(format_timestamp(timestamp_of(i)), format_timestamp(timestamp_of(i + 1)))

\* A finished run over three valid frames: 0, 1/24 and 2/24 in both logs.
C6_Witness ==
    /\ pc = "done"
    /\ CorruptCount = 0
    /\ Len(RawTimestamps) = 3
    /\ RawTimestamps[3] = <<"0", "0", ":", "0", "0", ":", "0", "0", ".", "0", "8", "3", "3", "3", "3">>
    /\ CsvTimestamps = RawTimestamps

\* The activation vector of every image the stream may hold.
ValuesOfImages ==
    {<<fr, analyze_frame_brightness(fr)>> : fr \in {g \in MainFrames : ~is_corrupt(g)}}

ValuesOf(fr) == (CHOOSE p \in ValuesOfImages : p[1] = fr)[2]

\* The records the valid frames of the stream so far give, in frame order.
ExpectedRaw ==
    [k \in 1..Len(ValidIndices) |->
        output_line(ValuesOf(stream[ValidIndices[k] + 1]),
                    format_timestamp(timestamp_of(ValidIndices[k])))]

ExpectedCsv ==
    <<header>> \o
    [k \in 1..Len(ValidIndices) |->
        csv_line(ValuesOf(stream[ValidIndices[k] + 1]),
                 format_timestamp(timestamp_of(ValidIndices[k])))]

IsPrefix(s, t) == Len(s) <= Len(t) /\ s = SubSeq(t, 1, Len(s))

\* C7: wherever the run stands in the loop, and after an interruption
\* there, each log on disk holds only complete lines, the records of a
\* prefix of the processed frames in frame order; when the next frame is
\* read the records of all frames before it are on disk; the sheet file
\* does not exist; and once it exists the stream has ended and it holds the
\* rows of all buffered columns.
C7_InterruptedRun ==
    /\ (InLoop \/ pc = "interrupted") =>
         /\ \A k \in 1..Len(f.disk) :
              f.disk[k].eol /\ Len(f.disk[k].values) = 88 /\ Len(f.disk[k].ts) = 15
         /\ \A k \in 1..Len(csv_f.disk) : csv_f.disk[k].eol /\ Len(csv_f.disk[k].cells) = 89
         /\ IsPrefix(f.disk, ExpectedRaw)
         /\ IsPrefix(csv_f.disk, ExpectedCsv)
         /\ Len(csv_f.disk) <= Len(f.disk) + 1
         /\ ~sheet_file.exists
    /\ pc = "read" =>
         /\ f.disk = ExpectedRaw
         /\ csv_f.disk \o csv_f.buf = ExpectedCsv
         /\ Len(stream) > 0 /\ ~is_corrupt(stream[Len(stream)]) => csv_f.disk = ExpectedCsv
    /\ sheet_file.exists =>
         /\ SheetWritten
         /\ Len(sheet_music_columns) = Len(ValidIndices)
         /\ sheet_file.lines = sheet_lines(sheet_music_columns)

\* A run killed after the second frame's raw record reached the disk and
\* before its row did.
C7_Witness ==
    /\ pc = "interrupted"
    /\ Len(f.disk) = 2
    /\ Len(csv_f.disk) = 2
    /\ ~sheet_file.exists

\* The gray values of row 0 of an image over key i (1-based): how many
\* there are and what they sum to.
KeyWidth(i) == KeyEdges[i + 1] - KeyEdges[i]

KeyGraySum(image, i) == gray_sum(image, KeyEdges[i], KeyEdges[i + 1])

\* C8: the vector has 88 values in slice order, the i-th being 1 exactly
\* when the mean of row 0 over slice i, as a percentage of 255, is more
\* than 70; an all-black frame gives all 0s and an all-white frame all 1s.
C8_BrightnessThreshold ==
    pc = "returned" =>
      /\ Len(output.value) = 88
      /\ \A i \in 1..88 :
           /\ output.value[i] \in {0, 1}
           /\ output.value[i] = 1
                <=> KeyGraySum(input, i) * 100 > 70 * 255 * KeyWidth(i)
      /\ (input.on = "black" /\ input.off = "black")
            => \A i \in 1..88 : output.value[i] = 0
      /\ (input.on = "white" /\ input.off = "white")
            => \A i \in 1..88 : output.value[i] = 1

\* A frame whose lit keys alternate 178 and 179: over G3, 20 pixels wide,
\* the mean is 178.5, exactly 70 percent, and the value is 0; over C8, 33
\* pixels wide from an odd column, it is more, and the value is 1.
C8_Witness ==
    /\ pc = "returned"
    /\ input.on = "mix"
    /\ {34, 87} \subseteq input.lit
    /\ KeyGraySum(input, 35) * 100 = 70 * 255 * KeyWidth(35)
    /\ output.value[35] = 0
    /\ output.value[88] = 1

\* C9: the width table has 88 positive widths; the slices the loop cuts
\* start at 0, each starts where the one before ends, and the last ends at
\* 1848; no slice is shorter than its width, so the clamp shortens none.
C9_SlicesCoverWidth ==
    /\ Len(vertical_slices) = 88
    /\ \A i \in 1..Len(vertical_slices) : vertical_slices[i] > 0
    /\ pc = "returned" =>
         LET regions == output.regions
         IN  /\ Len(regions) = 88
             /\ regions[1].x_start = 0
             /\ \A i \in 1..Len(regions) :
                  /\ regions[i].x_end > regions[i].x_start
                  /\ regions[i].x_end - regions[i].x_start = vertical_slices[i]
             /\ \A i \in 1..(Len(regions) - 1) : regions[i + 1].x_start = regions[i].x_end
             /\ regions[Len(regions)].x_end = 1848

C9_Witness ==
    /\ pc = "returned"
    /\ Len(output.regions) = 88
    /\ output.regions[88] = [x_start |-> 1815, x_end |-> 1848]
    /\ output.regions[35].x_end - output.regions[35].x_start = 20

====
